---- MODULE Spec2Model ----
(***************************************************************************)
(* A model of the perspective-critique pipeline of Art_Fundamentals_Tutor: *)
(*   - the comparison protocol client (services/geminiService.ts),         *)
(*   - the critique session of components/CritiqueZone.tsx, in its two     *)
(*     protocol shapes (single-shot with an error state and a cancel       *)
(*     action; two-phase with a crop step),                                *)
(*   - the scene capture effect of SceneContent.                           *)
(* JavaScript values are modelled as follows: null and undefined are the   *)
(* strings Null and Undefined, a parsed JSON object is a record holding    *)
(* exactly the keys the text had, an array of edges is a sequence.         *)
(***************************************************************************)
EXTENDS Integers, Sequences, FiniteSets, TLC

Null == "null"
Undefined == "undefined"

(***************************************************************************)
(* Comparison protocol client                                              *)
(***************************************************************************)

MODEL_NAME == "gemini-3-flash-preview"
FALLBACK_MODEL_NAME == "gemini-2.5-flash"

\* A list that starts with the fallback model.
modelsToTryFallbackFirst == <<FALLBACK_MODEL_NAME, MODEL_NAME>>

\* const modelsToTry = [MODEL_NAME, FALLBACK_MODEL_NAME]
modelsToTry == <<MODEL_NAME, FALLBACK_MODEL_NAME>>

\* Messages of the errors a request to the service is rejected with.
ErrRateLimit == "[429 Too Many Requests] quota exceeded"
ErrNetwork == "TypeError: fetch failed"
ErrServer == "[500 Internal Server Error]"
ErrorMessages == {ErrRateLimit, ErrNetwork, ErrServer}

\* Response bodies (the text of result.response).
BodyFull == "{grade:B, feedback:fbB, leftSet:[l1,l2], rightSet:[r1], verticalSet:[v1]}"
BodyFullA == "{grade:A, feedback:fbA, leftSet:[l3], rightSet:[r3], verticalSet:[v3]}"
BodyNoGrade == "{feedback:fbN, leftSet:[l1], rightSet:[r1], verticalSet:[v1]}"
BodyNoFeedback == "{grade:B, leftSet:[l1], rightSet:[r1], verticalSet:[v1]}"
BodyNoSets == "{grade:D, feedback:fbD}"
BodyJsonNull == "null"
BodyProse == "Sorry, I cannot analyze this image."
BodyTruncated == "{grade:B, feedb"
BodyEmpty == ""
ValidJsonBodies == {BodyFull, BodyFullA, BodyNoGrade, BodyNoFeedback, BodyNoSets, BodyJsonNull}
InvalidJsonBodies == {BodyProse, BodyTruncated, BodyEmpty}
Bodies == ValidJsonBodies \cup InvalidJsonBodies

\* What one request to one model ends with: a rejection (err is its message)
\* or a response (err = Null, text is the body).
Outcomes ==
  [err : ErrorMessages, text : {BodyEmpty}] \cup [err : {Null}, text : Bodies]

NoFields == [k \in {} |-> Undefined]

\* JSON.parse: ok = FALSE is a SyntaxError; kind is "object" or "null".
JsonParse(text) ==
  CASE text = BodyFull ->
         [ok |-> TRUE, kind |-> "object",
          fields |-> [grade |-> "B", feedback |-> "fbB", leftSet |-> <<"l1", "l2">>,
                      rightSet |-> <<"r1">>, verticalSet |-> <<"v1">>]]
    [] text = BodyFullA ->
         [ok |-> TRUE, kind |-> "object",
          fields |-> [grade |-> "A", feedback |-> "fbA", leftSet |-> <<"l3">>,
                      rightSet |-> <<"r3">>, verticalSet |-> <<"v3">>]]
    [] text = BodyNoGrade ->
         [ok |-> TRUE, kind |-> "object",
          fields |-> [feedback |-> "fbN", leftSet |-> <<"l1">>,
                      rightSet |-> <<"r1">>, verticalSet |-> <<"v1">>]]
    [] text = BodyNoFeedback ->
         [ok |-> TRUE, kind |-> "object",
          fields |-> [grade |-> "B", leftSet |-> <<"l1">>,
                      rightSet |-> <<"r1">>, verticalSet |-> <<"v1">>]]
    [] text = BodyNoSets ->
         [ok |-> TRUE, kind |-> "object",
          fields |-> [grade |-> "D", feedback |-> "fbD"]]
    [] text = BodyJsonNull ->
         [ok |-> TRUE, kind |-> "null", fields |-> NoFields]
    [] OTHER ->
         [ok |-> FALSE, kind |-> "SyntaxError", fields |-> NoFields]

\* obj.k for a string-valued key: undefined when the key is absent.
Field(obj, k) == IF k \in DOMAIN obj THEN obj[k] ELSE Undefined

\* obj.k || [] for an array-valued key.
ArrayOrEmpty(obj, k) == IF k \in DOMAIN obj THEN obj[k] ELSE << >>

\* !v for a string, null or undefined.
Falsy(v) == v \in {Undefined, Null, ""}

\* error.message.includes('429')
isRateLimitError(err) == err \in {ErrRateLimit}

FailedLater == "Failed to compare images. Please try again later."
FailedAgain == "Failed to compare images. Please try again."

\* s.includes("Failed to compare"), over the strings of the model.
IncludesFailedToCompare(s) == s \in {FailedLater, FailedAgain}

EmptyComparison(gradeValue, feedbackValue) ==
  [grade |-> gradeValue, feedback |-> feedbackValue,
   leftSet |-> << >>, rightSet |-> << >>, verticalSet |-> << >>]

\* if (!data.grade) data.grade = 'C'
DefaultGrade(fields) ==
  IF Falsy(Field(fields, "grade"))
    THEN [k \in DOMAIN fields \cup {"grade"} |-> IF k = "grade" THEN "C" ELSE fields[k]]
    ELSE fields

\* What the body of the try block of compareDrawings returns for a response
\* text (the non-streaming branch): the parsed data with its grade defaulted,
\* or, from the inner catch (a SyntaxError, or the TypeError of reading
\* .grade of null), a grade 'F' whose feedback is the raw text.
\* via names the return statement taken.
CompareParse(text) ==
  LET p == JsonParse(text) IN
  IF p.ok /\ p.kind = "object"
    THEN [threw |-> FALSE, via |-> "parsed", value |-> DefaultGrade(p.fields)]
    ELSE [threw |-> FALSE, via |-> "unparsed", value |-> EmptyComparison("F", text)]

\* compareDrawings: the loop over modelsToTry from model i on, outs[i] being
\* what the request to modelsToTry[i] ends with. tried is the sequence of the
\* models a request was sent to.
RECURSIVE CompareFrom(_, _, _)
CompareFrom(i, outs, tried) ==
  IF i > Len(modelsToTry)
    THEN [threw |-> FALSE, via |-> "afterLoop", tried |-> tried, error |-> Null,
          value |-> EmptyComparison("F", FailedAgain)]
    ELSE
      LET modelName == modelsToTry[i]
          o == outs[i]
          sent == Append(tried, modelName)
      IN IF o.err = Null
           THEN LET r == CompareParse(o.text)
                IN [threw |-> r.threw, via |-> r.via, tried |-> sent,
                    error |-> Null, value |-> r.value]
           ELSE IF isRateLimitError(o.err) /\ modelName # FALLBACK_MODEL_NAME
                  THEN CompareFrom(i + 1, outs, sent)
                  ELSE IF modelName = FALLBACK_MODEL_NAME
                         THEN [threw |-> FALSE, via |-> "exhausted", tried |-> sent,
                               error |-> Null,
                               value |-> EmptyComparison("F", FailedLater)]
                         ELSE CompareFrom(i + 1, outs, sent)

\* A compareDrawings that gives up at the first rejection.
compareDrawingsPrimaryOnly(outs) ==
  IF outs[1].err = Null
    THEN CompareFrom(1, outs, << >>)
    ELSE [threw |-> FALSE, via |-> "exhausted", tried |-> <<MODEL_NAME>>,
          error |-> Null, value |-> EmptyComparison("F", FailedLater)]

compareDrawings(outs) == CompareFrom(1, outs, << >>)

\* scanImageStructure: any exception on the primary model moves on to the
\* fallback model; an exception on the fallback model is rethrown.
RECURSIVE ScanFrom(_, _, _)
ScanFrom(i, outs, tried) ==
  IF i > Len(modelsToTry)
    THEN [threw |-> FALSE, via |-> "afterLoop", tried |-> tried, error |-> Null,
          value |-> [leftSet |-> << >>, rightSet |-> << >>, verticalSet |-> << >>]]
    ELSE
      LET modelName == modelsToTry[i]
          o == outs[i]
          sent == Append(tried, modelName)
          p == JsonParse(o.text)
          thrown == IF o.err # Null THEN o.err
                    ELSE IF ~p.ok THEN "SyntaxError: Unexpected token in JSON"
                    ELSE IF p.kind = "null"
                      THEN "TypeError: Cannot read properties of null"
                    ELSE Null
      IN IF thrown = Null
           THEN [threw |-> FALSE, via |-> "parsed", tried |-> sent, error |-> Null,
                 value |-> [leftSet |-> ArrayOrEmpty(p.fields, "leftSet"),
                            rightSet |-> ArrayOrEmpty(p.fields, "rightSet"),
                            verticalSet |-> ArrayOrEmpty(p.fields, "verticalSet")]]
           ELSE IF modelName = FALLBACK_MODEL_NAME
                  THEN [threw |-> TRUE, via |-> "rethrown", tried |-> sent,
                        error |-> thrown,
                        value |-> [leftSet |-> << >>, rightSet |-> << >>,
                                   verticalSet |-> << >>]]
                  ELSE ScanFrom(i + 1, outs, sent)

scanImageStructure(outs) == ScanFrom(1, outs, << >>)

\* compareLineSets: one request to MODEL_NAME; the parsed value is returned as
\* it is (isNull: JSON null), and any exception gives the fixed grade "C".
compareLineSets(o) ==
  LET p == JsonParse(o.text) IN
  IF o.err = Null /\ p.ok
    THEN [threw |-> FALSE, via |-> "parsed", tried |-> <<MODEL_NAME>>,
          isNull |-> (p.kind = "null"), value |-> p.fields]
    ELSE [threw |-> FALSE, via |-> "caught", tried |-> <<MODEL_NAME>>,
          isNull |-> FALSE,
          value |-> [grade |-> "C", feedback |-> "Error during comparison."]]

(***************************************************************************)
(* Critique session (CritiqueZone)                                         *)
(***************************************************************************)

VARIABLES
  variant,            \* which CritiqueZone: "single" (CritiqueZone.tsx) or "twoPhase"
  step,               \* 'pose' | 'draw' | 'crop' | 'result'
  referenceImage,
  referenceLines,
  referenceAnalysis,  \* twoPhase only
  userDrawing,
  tempUploadedImage,  \* twoPhase only
  triggerCapture,
  analysis,
  lineSets,
  grade,              \* twoPhase only
  captureMeta,
  isAnalyzing,
  analysisError,      \* single only
  isSaving,           \* single only
  hasSaved,           \* single only
  photos,             \* the photo store, the save in flight, the call analysis is from
  elapsedTime,        \* single only
  requests,           \* the runComparison calls suspended at an await
  dispatched,         \* how many runComparison calls have sent a request
  readers,            \* FileReader loads that have not fired onload yet
  totalCritiques,     \* progress.totalCritiques of the storage service
  call,               \* the call of the client made last
  scene,              \* the three.js scene and renderer (capture specification)
  pose,               \* preset, cube and camera of the pose step
  shot,               \* the geometry the last completed capture computed
  overlay,            \* a ScanningOverlay: its edge lists and its visibleCount
  loading,            \* the loading effect of the single-shot component and its clock
  storage             \* the progress kept in localStorage, the service's defaults, the date

sessionVars ==
  <<variant, step, referenceImage, referenceLines, referenceAnalysis, userDrawing,
    tempUploadedImage, triggerCapture, analysis, lineSets, grade, captureMeta,
    isAnalyzing, analysisError, isSaving, hasSaved, photos, elapsedTime, requests,
    dispatched, readers, totalCritiques>>

poseVars == <<pose, shot>>

\* The components that stand beside the session.
asideVars == <<overlay, loading, storage>>

vars == <<sessionVars, call, scene, poseVars, asideVars>>

\* Bounds of the model.
MaxRequests == 2
MaxReaders == 2
MaxPhotos == 3

\* elapsedTime >= 15 shows the cancel button.
CANCEL_AFTER == 15

\* The whole seconds since loadingStartTime that the timeInterval callback can
\* read off the clock when it runs: values around the thresholds of the view.
ElapsedSamples == {14, 15}

RefImages == {"ref1"}
UserImages == {"draw1"}

\* The images and metadata one capture hands to handleCapture.
CaptureOf(img) ==
  [data |-> img, lines |-> "lines:" \o img, analysis |-> "wire:" \o img,
   meta |-> [vpLeft |-> "vp:" \o img, vpRight |-> Null, horizonY |-> "hy:" \o img]]

NoMeta == [vpLeft |-> Null, vpRight |-> Null, horizonY |-> Null]

\* The image ImageCropper hands to onConfirm for an uploaded image.
CroppedOf(img) == "crop:" \o img

NoError == [type |-> "none", message |-> ""]
ParseResponseError ==
  [type |-> "parse", message |-> "Could not parse the AI response. Please try again."]
CancelledError == [type |-> "timeout", message |-> "Analysis cancelled. Try again?"]
NetworkError ==
  [type |-> "network",
   message |-> "Network error. Please check your connection and try again."]
TimeoutError ==
  [type |-> "timeout",
   message |-> "Request timed out. The AI is taking too long to respond."]
ParseCaughtError ==
  [type |-> "parse", message |-> "Failed to parse AI response. Please try again."]
UnknownError == [type |-> "unknown", message |-> "Something went wrong. Please try again."]

\* The errorInfo the catch block of runComparison builds from error.message.
ClassifyError(msg) ==
  IF msg \in {ErrNetwork} THEN NetworkError
  ELSE IF msg \in {} THEN TimeoutError
  ELSE IF msg \in {"SyntaxError: Unexpected token in JSON"} THEN ParseCaughtError
  ELSE UnknownError

EmptyLineSets(v) ==
  IF v = "single"
    THEN [leftSet |-> << >>, rightSet |-> << >>, verticalSet |-> << >>]
    ELSE [leftSet |-> << >>, rightSet |-> << >>, verticalSet |-> << >>,
          refLeftSet |-> << >>, refRightSet |-> << >>, refVerticalSet |-> << >>]

\* call before any operation of the client has been called.
\* previous: the models the call before this one sent a request to.
NoCall == [op |-> "idle", outs |-> << >>, threw |-> FALSE, via |-> "none",
           tried |-> << >>, message |-> "", grade |-> Undefined,
           previous |-> << >>]

\* call once the operation op, given the answers outs, has ended with res.
Called(op, outs, res) ==
  [op |-> op, outs |-> outs, threw |-> res.threw, via |-> res.via,
   tried |-> res.tried,
   message |-> IF res.threw THEN res.error ELSE Field(res.value, "feedback"),
   grade |-> IF res.threw THEN Undefined ELSE Field(res.value, "grade"),
   previous |-> call.previous]

\* An empty photo store, no savePhoto call in flight, no analysis shown.  A
\* photo stands for the runComparison call whose analysis it was saved with.
NoPhotos == [store |-> << >>, pending |-> 0, result |-> 0]

InitSession(v) ==
  /\ variant = v
  /\ step = "pose"
  /\ referenceImage = Null
  /\ referenceLines = Null
  /\ referenceAnalysis = Null
  /\ userDrawing = Null
  /\ tempUploadedImage = Null
  /\ triggerCapture = FALSE
  /\ analysis = Null
  /\ lineSets = EmptyLineSets(variant)
  /\ grade = Null
  /\ captureMeta = NoMeta
  /\ isAnalyzing = FALSE
  /\ analysisError = NoError
  /\ isSaving = FALSE
  /\ hasSaved = FALSE
  /\ photos = NoPhotos
  /\ elapsedTime = 0
  /\ requests = << >>
  /\ dispatched = 0
  /\ readers = << >>
  /\ totalCritiques = 0

\* The colour the capture effect paints the background with.
WHITE == "#ffffff"

\* scene before any capture: now is what the scene and the renderer hold
\* (scene.background, cubeMaterial.visible, gl.getPixelRatio()), before is
\* what they held when the last capture started, exit is how that capture
\* ended and data are the images it read back.
NoCapture(background, pixelRatio) ==
  [now |-> [background |-> background, visible |-> TRUE, pixelRatio |-> pixelRatio],
   before |-> [background |-> background, visible |-> TRUE, pixelRatio |-> pixelRatio],
   exit |-> "none", data |-> << >>]

(***************************************************************************)
(* The pose of the scene and the geometry the capture effect computes from *)
(* it.  Lengths are in quarters of a world unit, angles in degrees, sines, *)
(* cosines, unit vectors and the focal factor in thousandths, and screen   *)
(* coordinates in whole pixels.                                            *)
(***************************************************************************)

\* Model units in one world unit.
UNIT == 4

\* const HORIZON_Z = -100
HORIZON_Z == -100

\* <CameraController ... distance={15} ...>
CAMERA_DISTANCE == 15

\* useState(55) of fov
DEFAULT_FOV == 55

\* const halfSize = 1.25
halfSize == 5

\* gl.domElement.width and gl.domElement.height during a capture.
width == 120
height == 90

\* The poses and cameras taken as samples: a cube in the middle, across the
\* right border, left of the whole frame and above the whole frame; a cube
\* turned by a quarter turn, half of it, or not at all; the lens wide or long.
CubePositions == {<<0, 0>>, <<40, 0>>, <<-200, 0>>, <<0, 100>>}
Rotations == {0, 45, 90}
CameraHeights == {0, 5}
Fovs == {15, DEFAULT_FOV}

Presets(v) ==
  IF v = "twoPhase" THEN {"1pt", "2pt", "3pt", "free"} ELSE {"1pt", "2pt", "free"}

Min(S) == CHOOSE x \in S : \A y \in S : x <= y
Max(S) == CHOOSE x \in S : \A y \in S : x >= y
Abs(x) == IF x < 0 THEN -x ELSE x
CeilDiv(n, d) == (n + d - 1) \div d

Sin1000(a) == CASE a = 0 -> 0 [] a = 45 -> 707 [] a = 90 -> 1000
Cos1000(a) == Sin1000(90 - a)

Dot(a, b) == a[1] * b[1] + a[2] * b[2] + a[3] * b[3]

\* Vector3.applyAxisAngle(new THREE.Vector3(0, 1, 0), rotation)
applyAxisAngle(v, rotation) ==
  <<(v[1] * Cos1000(rotation) + v[3] * Sin1000(rotation)) \div 1000,
    v[2],
    (v[3] * Cos1000(rotation) - v[1] * Sin1000(rotation)) \div 1000>>

\* 1000 / tan(fov / 2)
Focal1000(fov) == CASE fov = 15 -> 7596 [] fov = 55 -> 1921

\* The camera CameraController leaves behind: at (10, 10, 10) in free mode and
\* at (0, height, distance) otherwise, looking at the origin in both cases.
Camera(p) ==
  IF p.preset = "free"
    THEN [position |-> <<10 * UNIT, 10 * UNIT, 10 * UNIT>>,
          right |-> <<707, 0, -707>>,
          up |-> <<-408, 816, -408>>,
          forward |-> <<-577, -577, -577>>,
          fov |-> p.fov]
    ELSE LET tilt == CASE p.cameraHeight = 0 -> [c |-> 1000, s |-> 0]
                       [] p.cameraHeight = 5 -> [c |-> 949, s |-> 316]
         IN [position |-> <<0, p.cameraHeight * UNIT, CAMERA_DISTANCE * UNIT>>,
             right |-> <<1000, 0, 0>>,
             up |-> <<0, tilt.c, -tilt.s>>,
             forward |-> <<0, -tilt.s, -tilt.c>>,
             fov |-> p.fov]

\* projectVec: Vector3.project(camera), then from device coordinates to
\* pixels with y pointing down.
projectVec(v, camera) ==
  LET d == <<v[1] - camera.position[1], v[2] - camera.position[2],
             v[3] - camera.position[3]>>
      w == Dot(d, camera.forward) \div 1000
      f == Focal1000(camera.fov) * (height \div 2)
  IN <<(width \div 2) + (f * (Dot(d, camera.right) \div 1000)) \div (1000 * w),
       (height \div 2) - (f * (Dot(d, camera.up) \div 1000)) \div (1000 * w)>>

\* A box that no corner has widened yet.
BoxUnset == [minX |-> 100000, maxX |-> -100000, minY |-> 100000, maxY |-> -100000]

\* let minX = width; let maxX = 0; let minY = height; let maxY = 0
BoxStart == [minX |-> width, maxX |-> 0, minY |-> height, maxY |-> 0]

\* The ends of the twelve segments of the cube.
Corners ==
  {<<x * halfSize, y * halfSize, z * halfSize>> : x, y, z \in {-1, 1}}

\* xSegments and zSegments: the edges of the cube along x and along z, each
\* from its start corner to its end corner.
xSegments ==
  << <<(<<-halfSize, -halfSize, -halfSize>>), (<<halfSize, -halfSize, -halfSize>>)>>,
     <<(<<-halfSize, halfSize, -halfSize>>), (<<halfSize, halfSize, -halfSize>>)>>,
     <<(<<-halfSize, -halfSize, halfSize>>), (<<halfSize, -halfSize, halfSize>>)>>,
     <<(<<-halfSize, halfSize, halfSize>>), (<<halfSize, halfSize, halfSize>>)>> >>
zSegments ==
  << <<(<<-halfSize, -halfSize, -halfSize>>), (<<-halfSize, -halfSize, halfSize>>)>>,
     <<(<<halfSize, -halfSize, -halfSize>>), (<<halfSize, -halfSize, halfSize>>)>>,
     <<(<<-halfSize, halfSize, -halfSize>>), (<<-halfSize, halfSize, halfSize>>)>>,
     <<(<<halfSize, halfSize, -halfSize>>), (<<halfSize, halfSize, halfSize>>)>> >>

\* A corner of the cube in the world: turned, then moved to cubePos.
Placed(c, p) ==
  LET r == applyAxisAngle(c, p.cubeRotation)
  IN <<r[1] + p.cubePos[1], r[2] + p.cubePos[2], r[3]>>

\* processEdges: [x1, y1, x2, y2] of every segment, in pixels of the frame.
processEdges(segments, p) ==
  [i \in DOMAIN segments |->
     LET a == projectVec(Placed(segments[i][1], p), Camera(p))
         b == projectVec(Placed(segments[i][2], p), Camera(p))
     IN <<a[1], a[2], b[1], b[2]>>]

\* edges.map(e => [e[0] - minX, e[1] - minY, e[2] - minX, e[3] - minY])
EdgesFromCrop(edges, crop) ==
  [i \in DOMAIN edges |->
     <<edges[i][1] - crop.minX, edges[i][2] - crop.minY,
       edges[i][3] - crop.minX, edges[i][4] - crop.minY>>]

\* The bounding box of the cube on the screen, before padding.
ContentBox(p) ==
  LET pts == {projectVec(LET r == applyAxisAngle(c, p.cubeRotation)
                         IN <<r[1] + p.cubePos[1], r[2] + p.cubePos[2], r[3]>>,
                         Camera(p)) : c \in Corners}
  IN [minX |-> Min({BoxStart.minX} \cup {q[1] : q \in pts}),
      maxX |-> Max({BoxStart.maxX} \cup {q[1] : q \in pts}),
      minY |-> Min({BoxStart.minY} \cup {q[2] : q \in pts}),
      maxY |-> Max({BoxStart.maxY} \cup {q[2] : q \in pts})]

\* The padding as a fraction: a tenth of the larger side of the content, or
\* in the first component a twentieth of the smaller side of the frame.
Padding(v, box) ==
  IF v = "legacy"
    THEN [n |-> Min({width, height}), d |-> 20]
    ELSE [n |-> Max({box.maxX - box.minX, box.maxY - box.minY}), d |-> 10]

\* "Add Padding": Math.floor and Math.ceil of the padded sides, clamped to the frame.
CropBox(v, box) ==
  LET padding == Padding(v, box)
      out == CeilDiv(padding.n, padding.d)
  IN [minX |-> Max({0, box.minX - out}),
      minY |-> Max({0, box.minY - out}),
      maxX |-> Min({width, box.maxX + out}),
      maxY |-> Min({height, box.maxY + out})]

NoPoint == << >>

\* getVanishingPoint: where the line from the camera along the turned axis
\* meets the plane z = HORIZON_Z; null when the axis runs along that plane.
getVanishingPoint(camera, rotation, axis) ==
  LET turned == applyAxisAngle(IF axis = "x" THEN <<1000, 0, 0>> ELSE <<0, 0, 1000>>,
                               rotation)
      dir == IF turned[3] > 0 THEN <<-turned[1], -turned[2], -turned[3]>> ELSE turned
  IN IF Abs(dir[3]) < 1
       THEN NoPoint
       ELSE <<camera.position[1]
                + (dir[1] * (camera.position[3] - HORIZON_Z * UNIT)) \div (-dir[3]),
              camera.position[2],
              HORIZON_Z * UNIT>>

\* const HORIZON_Z = -30 of the first component
MARKER_HORIZON_Z == -30

\* 1000 * Math.tan(rotation); Math.tan(Math.PI / 2) is a finite number of the
\* order of 10^16, held here as TanQuarterTurn1000.
TanQuarterTurn1000 == 1000000
Tan1000(a) == CASE a = 0 -> 0 [] a = 45 -> 1000 [] a = 90 -> TanQuarterTurn1000

\* 1000 / Math.tan(t), t being eps = 0.0001 in place of a rotation below eps.
Cot1000(a) == CASE a = 0 -> 10000000 [] a = 45 -> 1000 [] a = 90 -> 0

\* calculateVPPosition of the first component: the x of a marker on the plane
\* z = HORIZON_Z, in world units, as a point of one coordinate.
calculateVPPosition(cameraZ, rotation, type) ==
  LET D == cameraZ - MARKER_HORIZON_Z
  IN IF type \in {"center", "left"}
       THEN <<(-D * Tan1000(rotation)) \div 1000>>
       ELSE <<(D * Cot1000(rotation)) \div 1000>>

\* The markers PerspectiveMarkers places in a preset.
MarkerTypes(preset) ==
  CASE preset = "1pt" -> {"center"} [] preset = "2pt" -> {"left", "right"}
    [] OTHER -> {}

\* A projectPoint that leaves the point in the pixels of the frame.
projectPointOfFrame(v, camera, crop) == projectVec(v, camera)

\* projectPoint: a point on the screen, measured from the corner of the crop.
projectPoint(v, camera, crop) ==
  LET q == projectVec(v, camera) IN <<q[1] - crop.minX, q[2] - crop.minY>>

\* Vanishing points handed over in the order of the axes, x then z.
VanishingPointsInAxisOrder(p, crop) ==
  LET camera == Camera(p)
      at(axis) == LET vp == getVanishingPoint(camera, p.cubeRotation, axis)
                  IN IF vp = NoPoint THEN NoPoint ELSE projectPoint(vp, camera, crop)
  IN IF p.preset = "1pt" THEN [vpLeft |-> at("z"), vpRight |-> NoPoint]
     ELSE IF p.preset = "2pt" THEN [vpLeft |-> at("x"), vpRight |-> at("z")]
     ELSE [vpLeft |-> NoPoint, vpRight |-> NoPoint]

\* "Calculate VP Positions (Screen Space)": vpLeft and vpRight of the meta.
VanishingPoints(p, crop) ==
  LET camera == Camera(p)
      at(axis) == LET vp == getVanishingPoint(camera, p.cubeRotation, axis)
                  IN IF vp = NoPoint THEN NoPoint ELSE projectPoint(vp, camera, crop)
  IN IF p.preset = "1pt"
       THEN [vpLeft |-> at("z"), vpRight |-> NoPoint]
     ELSE IF p.preset = "2pt"
       THEN LET c1 == at("x")
                c2 == at("z")
                left1 == c1
                right1 == NoPoint
            IN IF c2 = NoPoint THEN [vpLeft |-> left1, vpRight |-> right1]
               ELSE IF left1 = NoPoint THEN [vpLeft |-> c2, vpRight |-> right1]
               ELSE IF c2[1] < left1[1] THEN [vpLeft |-> c2, vpRight |-> left1]
               ELSE [vpLeft |-> left1, vpRight |-> c2]
     ELSE [vpLeft |-> NoPoint, vpRight |-> NoPoint]

NoShot == [taken |-> FALSE]

\* What one run of the capture effect computes from the pose: the box of the
\* cube, the rectangle every getCroppedImage call is given, and the meta.  The
\* first component computes the rectangle alone.
Geometry(v, p) ==
  LET content == ContentBox(p)
      crop == CropBox(v, content)
      cropWidth == crop.maxX - crop.minX
      cropHeight == crop.maxY - crop.minY
      drawn == [x |-> crop.minX, y |-> crop.minY, width |-> cropWidth,
                height |-> cropHeight]
  IN IF v = "legacy"
       THEN [taken |-> TRUE, content |-> content, crop |-> crop, drawn |-> drawn]
       ELSE LET meta == VanishingPoints(p, crop)
            IN [taken |-> TRUE, content |-> content, crop |-> crop, drawn |-> drawn,
                vpLeft |-> meta.vpLeft, vpRight |-> meta.vpRight,
                horizonY |-> projectPoint(<<0, 0, HORIZON_Z * UNIT>>, Camera(p), crop)[2],
                edgesX |-> EdgesFromCrop(processEdges(xSegments, p), crop),
                edgesZ |-> EdgesFromCrop(processEdges(zSegments, p), crop),
                width |-> cropWidth, height |-> cropHeight]

(***************************************************************************)
(* ScanningOverlay, the reveal of the edges of the model.                  *)
(***************************************************************************)

\* The longest edge list given to the overlay.
MaxEdges == 4

\* "+20 ticks pause"
PAUSE_TICKS == 20

\* No overlay on the screen.
NoOverlay == [mounted |-> FALSE, edgesX |-> << >>, edgesZ |-> << >>, visibleCount |-> 0]

\* The edge lists of n edges, an edge standing for its coordinates.
EdgeList(axis, n) == [i \in 1..n |-> <<axis, i>>]

\* allEdges: the x edges in cyan, then the z edges in orange.
allEdges(o) ==
  [i \in 1..Len(o.edgesX) |-> [edge |-> o.edgesX[i], color |-> "cyan"]]
    \o [i \in 1..Len(o.edgesZ) |-> [edge |-> o.edgesZ[i], color |-> "orange"]]

\* The lines drawn: allEdges.slice(0, visibleCount).filter((_, i) => i < allEdges.length)
DrawnEdges(o) ==
  SubSeq(allEdges(o), 1, Min({o.visibleCount, Len(allEdges(o))}))

(***************************************************************************)
(* The loading effect of the single-shot component, with the clock that    *)
(* Date.now() reads.  The clock counts instants; what Date.now() returns   *)
(* changes from one instant to the next.                                   *)
(***************************************************************************)

\* Instants in one second, and the last instant of the clock.
InstantsPerSecond == 2
MaxNow == 34

\* null of loadingStartTime and of an interval that is not set.
NoTime == -1
NoInterval == [start |-> NoTime, due |-> NoTime]

\* The component as it mounts: useState(false), useState(null), useState(0);
\* the effect has run once and left everything as it was.
InitLoading ==
  [isAnalyzing |-> FALSE, loadingStartTime |-> NoTime, elapsedTime |-> 0,
   timeInterval |-> NoInterval, effectDue |-> FALSE, now |-> 0]

\* The pose step as the component mounts: useState('1pt'), [0, 0, 0], 0, 0, 55.
InitPose ==
  [preset |-> "1pt", cubePos |-> <<0, 0>>, cubeRotation |-> 0, cameraHeight |-> 0,
   fov |-> DEFAULT_FOV]

(***************************************************************************)
(* The progress service.  Two versions of it write the same localStorage   *)
(* key: one completes tasks for good (completeTask), the other toggles     *)
(* them (toggleTask).  Dates are days counted from 0.                      *)
(***************************************************************************)

XP_PER_TASK == 50
XP_PER_CRITIQUE == 100
XP_PER_LESSON == 75
XP_PER_LEVEL == 500

MaxXp == 600
MaxDay == 2
TaskIds == {1, 2}
Versions == {"complete", "toggle"}

\* lastPracticeDate: null
NoDate == -7

DEFAULT_PROGRESS ==
  [xp |-> 0, level |-> 1, streak |-> 0, lastPracticeDate |-> NoDate,
   totalCritiques |-> 0, totalLessons |-> 0, completedTaskIds |-> {}]

\* Nothing stored, the module of version v just loaded.  defaultCompleted is
\* the array DEFAULT_PROGRESS.completedTaskIds of the loaded module.
InitStorage(v) ==
  [version |-> v, stored |-> FALSE, item |-> DEFAULT_PROGRESS,
   defaultCompleted |-> {}, clock |-> 0]

\* getProgress: the stored item, or a shallow copy of DEFAULT_PROGRESS, whose
\* completedTaskIds is the module's own array.
getProgress ==
  IF storage.stored THEN storage.item
  ELSE [DEFAULT_PROGRESS EXCEPT !.completedTaskIds = storage.defaultCompleted]

\* Math.floor(progress.xp / XP_PER_LEVEL) + 1
LevelFor(xp) == (xp \div XP_PER_LEVEL) + 1

\* updateStreak, now being the date its own new Date() reads.
updateStreak(progress, now) ==
  IF progress.lastPracticeDate = now - 1
    THEN [progress EXCEPT !.streak = @ + 1]
  ELSE IF progress.lastPracticeDate # now
    THEN [progress EXCEPT !.streak = 1]
  ELSE progress

\* The dates a later new Date() of the same call can read.
LaterReads == {d \in {storage.clock, storage.clock + 1} : d <= MaxDay}

\* completedTaskIds.push(taskId) writes into the array of DEFAULT_PROGRESS
\* when the progress was not read from storage.
Pushed(taskId) ==
  IF storage.stored THEN storage.defaultCompleted
  ELSE storage.defaultCompleted \cup {taskId}

\* saveProgress(progress), the date having become now.
saveProgress(progress, defaults, now) ==
  [storage EXCEPT !.stored = TRUE, !.item = progress,
                  !.defaultCompleted = defaults, !.clock = now]

\* The xp an un-completed task leaves, without the floor at 0.
UncompletedXpUnbounded(xp) == xp - XP_PER_TASK

\* Math.max(0, progress.xp - XP_PER_TASK)
UncompletedXp(xp) == Max({0, xp - XP_PER_TASK})

InitSingle ==
  /\ InitSession("single") /\ call = NoCall /\ scene = NoCapture(Null, 1)
  /\ pose = InitPose /\ shot = NoShot /\ overlay = NoOverlay /\ loading = InitLoading
  /\ storage = InitStorage("complete")
InitTwoPhase ==
  /\ InitSession("twoPhase") /\ call = NoCall /\ scene = NoCapture(Null, 1)
  /\ pose = InitPose /\ shot = NoShot /\ overlay = NoOverlay /\ loading = InitLoading
  /\ storage = InitStorage("complete")

captureVars ==
  <<referenceImage, referenceLines, referenceAnalysis, captureMeta, triggerCapture>>
drawingVars == <<userDrawing, tempUploadedImage, readers>>
resultVars == <<analysis, lineSets, grade, analysisError>>
saveVars == <<isSaving, hasSaved, photos>>
requestVars == <<requests, dispatched>>

\* Which of the component's four returns renders.
View ==
  IF step = "pose" THEN "pose"
  ELSE IF step = "draw" THEN "draw"
  ELSE IF step = "crop" /\ tempUploadedImage # Null THEN "crop"
  ELSE "result"

\* The draw view takes pointer input: in the single-shot component the
\* analyzing overlay (fixed inset-0 z-50) covers it while isAnalyzing.
DrawViewOpen ==
  /\ View = "draw"
  /\ (variant = "single" => ~isAnalyzing)

Pending == DOMAIN requests

\* The request record of a runComparison call that sends its first request;
\* scanned: the images whose scan has returned its result to the call.
NewRequest(ref, drawing, firstAwait) ==
  [id |-> dispatched + 1, ref |-> ref, drawing |-> drawing, pc |-> firstAwait,
   stale |-> FALSE, cancelled |-> FALSE, scanned |-> {}]

\* requests after a new call starts: the calls still suspended belong to an
\* earlier comparison from now on.
WithNewRequest(req) ==
  [i \in Pending \cup {req.id} |->
     IF i = req.id THEN req ELSE [requests[i] EXCEPT !.stale = TRUE]]

Without(r) == [i \in Pending \ {r} |-> requests[i]]

\* The answers of the models a call res did not send a request to do not
\* exist: they are fixed to the first answer.
Consulted(res, outs) == \A i \in 1..Len(outs) : i > Len(res.tried) => outs[i] = outs[1]

\* onClick={triggerSceneCapture}
triggerSceneCapture ==
  /\ View = "pose"
  /\ ~triggerCapture
  /\ triggerCapture' = TRUE
  /\ UNCHANGED <<variant, step, referenceImage, referenceLines, referenceAnalysis,
                 captureMeta, drawingVars, resultVars, saveVars, requestVars,
                 isAnalyzing, elapsedTime, totalCritiques, call, scene, poseVars, asideVars>>

\* handleCapture, the onCapture callback of SceneContent, called with the
\* images of the scene.
handleCapture(img) ==
  /\ referenceImage' = CaptureOf(img).data
  /\ referenceLines' = CaptureOf(img).lines
  /\ referenceAnalysis' =
       IF variant = "twoPhase" THEN CaptureOf(img).analysis ELSE referenceAnalysis
  /\ captureMeta' = CaptureOf(img).meta
  /\ triggerCapture' = FALSE
  /\ step' = "draw"
  /\ requests' = [i \in Pending |-> [requests[i] EXCEPT !.stale = TRUE]]
  /\ UNCHANGED <<variant, drawingVars, resultVars, saveVars, dispatched,
                 isAnalyzing, elapsedTime, totalCritiques, call>>

\* The capture effect of SceneContent runs to its end and calls onCapture.
captureDelivers(img) ==
  /\ View = "pose"
  /\ triggerCapture
  /\ handleCapture(img)
  /\ UNCHANGED <<scene, poseVars, asideVars>>

\* handleFileChange: an image file is chosen and a FileReader starts reading.
handleFileChange(img) ==
  /\ DrawViewOpen
  /\ Len(readers) < MaxReaders
  /\ readers' = Append(readers, img)
  /\ UNCHANGED <<variant, step, captureVars, userDrawing, tempUploadedImage,
                 resultVars, saveVars, requestVars, isAnalyzing, elapsedTime,
                 totalCritiques, call, scene, poseVars, asideVars>>

\* reader.onload of the i-th load in flight
readerOnload(i) ==
  /\ i \in DOMAIN readers
  /\ readers' = [k \in 1..(Len(readers) - 1) |->
                   IF k < i THEN readers[k] ELSE readers[k + 1]]
  /\ IF variant = "single"
       THEN /\ userDrawing' = readers[i]
            /\ UNCHANGED <<tempUploadedImage, step>>
       ELSE /\ tempUploadedImage' = readers[i]
            /\ step' = "crop"
            /\ UNCHANGED userDrawing
  /\ UNCHANGED <<variant, captureVars, resultVars, saveVars, requestVars,
                 isAnalyzing, elapsedTime, totalCritiques, call, scene, poseVars, asideVars>>

\* handleArchiveSelect (single-shot component)
handleArchiveSelect(img) ==
  /\ variant = "single"
  /\ DrawViewOpen
  /\ userDrawing' = img
  /\ UNCHANGED <<variant, step, captureVars, tempUploadedImage, readers, resultVars,
                 saveVars, requestVars, isAnalyzing, elapsedTime, totalCritiques, call, scene, poseVars, asideVars>>

\* runComparison of the single-shot component up to its await.
runComparisonSingle ==
  /\ referenceImage # Null
  /\ userDrawing # Null
  /\ dispatched < MaxRequests
  /\ isAnalyzing' = TRUE
  /\ analysisError' = NoError
  /\ hasSaved' = FALSE
  /\ elapsedTime' = 0
  /\ requests' = WithNewRequest(NewRequest(referenceImage, userDrawing, "compare"))
  /\ dispatched' = dispatched + 1
  /\ UNCHANGED <<variant, step, captureVars, drawingVars, analysis, lineSets, grade,
                 isSaving, photos, totalCritiques, call, scene, poseVars, asideVars>>

\* The "Check Accuracy" button: disabled={!userDrawing || isAnalyzing}
submitSingle ==
  /\ variant = "single"
  /\ DrawViewOpen
  /\ userDrawing # Null
  /\ runComparisonSingle

\* The Retry button of the error banner: analysisError && !isAnalyzing
retrySingle ==
  /\ variant = "single"
  /\ View = "draw"
  /\ analysisError # NoError
  /\ ~isAnalyzing
  /\ runComparisonSingle

\* The timeInterval callback of the loading effect runs and sets elapsedTime
\* to the seconds t that have passed.
tick(t) ==
  /\ variant = "single"
  /\ isAnalyzing
  /\ t > elapsedTime
  /\ elapsedTime' = t
  /\ UNCHANGED <<variant, step, captureVars, drawingVars, resultVars, saveVars,
                 requestVars, isAnalyzing, totalCritiques, call, scene, poseVars, asideVars>>

\* A Cancel button that the overlay shows from the start.
cancelAnalysisAtOnce ==
  /\ variant = "single"
  /\ View = "draw"
  /\ isAnalyzing
  /\ isAnalyzing' = FALSE
  /\ analysisError' = CancelledError
  /\ elapsedTime' = 0
  /\ requests' = [i \in Pending |-> [requests[i] EXCEPT !.cancelled = TRUE]]
  /\ UNCHANGED <<variant, step, captureVars, drawingVars, analysis, lineSets, grade,
                 saveVars, dispatched, totalCritiques, call, scene, poseVars, asideVars>>

\* The Cancel button of the analyzing overlay.
cancelAnalysis ==
  /\ variant = "single"
  /\ View = "draw"
  /\ isAnalyzing
  /\ elapsedTime >= CANCEL_AFTER
  /\ isAnalyzing' = FALSE
  /\ analysisError' = CancelledError
  /\ elapsedTime' = 0
  /\ requests' = [i \in Pending |-> [requests[i] EXCEPT !.cancelled = TRUE]]
  /\ UNCHANGED <<variant, step, captureVars, drawingVars, analysis, lineSets, grade,
                 saveVars, dispatched, totalCritiques, call, scene, poseVars, asideVars>>

\* Which branch runComparison of the single-shot component takes once
\* compareDrawings has settled with res.
SingleBranch(res) ==
  IF res.threw THEN "catch"
  ELSE IF \/ Falsy(Field(res.value, "feedback"))
          \/ IncludesFailedToCompare(Field(res.value, "feedback"))
    THEN "parseError"
  ELSE "success"

\* runComparison of the single-shot component from its await on: the
\* compareDrawings call of request r settles, outs being what the models
\* answered.
resolveCompare(r, outs) ==
  /\ variant = "single"
  /\ r \in Pending
  /\ requests[r].pc = "compare"
  /\ LET res == compareDrawings(outs)
         branch == SingleBranch(res)
     IN /\ Consulted(res, outs)
        /\ analysisError' =
             IF branch = "catch" THEN ClassifyError(res.error)
             ELSE IF branch = "parseError" THEN ParseResponseError
             ELSE analysisError
        /\ analysis' =
             IF branch = "catch" THEN Null
             ELSE IF branch = "success" THEN res.value.feedback
             ELSE analysis
        /\ lineSets' =
             IF branch = "catch" THEN EmptyLineSets(variant)
             ELSE IF branch = "success"
               THEN [leftSet |-> ArrayOrEmpty(res.value, "leftSet"),
                     rightSet |-> ArrayOrEmpty(res.value, "rightSet"),
                     verticalSet |-> ArrayOrEmpty(res.value, "verticalSet")]
             ELSE lineSets
        /\ totalCritiques' = IF branch = "success" THEN totalCritiques + 1
                             ELSE totalCritiques
        /\ step' = IF branch = "success" THEN "result" ELSE step
        /\ photos' = [photos EXCEPT
                        !.result = IF branch = "success" THEN requests[r].id
                                   ELSE IF branch = "catch" THEN 0 ELSE @]
  /\ isAnalyzing' = FALSE
  /\ elapsedTime' = 0
  /\ requests' = Without(r)
  /\ UNCHANGED <<variant, captureVars, drawingVars, grade, isSaving, hasSaved,
                 dispatched, call, scene, poseVars, asideVars>>

\* A handleSaveResult that looks at neither isSaving nor hasSaved.
handleSaveResultUnguarded ==
  /\ variant = "single"
  /\ View = "result"
  /\ ~(userDrawing = Null \/ Falsy(analysis))
  /\ Len(photos.store) < MaxPhotos
  /\ isSaving' = TRUE
  /\ photos' = [photos EXCEPT !.pending = photos.result]
  /\ UNCHANGED <<variant, step, captureVars, drawingVars, resultVars, hasSaved,
                 requestVars, isAnalyzing, elapsedTime, totalCritiques, call, scene, poseVars, asideVars>>

\* handleSaveResult up to its await (Save Result button of the result view).
handleSaveResult ==
  /\ variant = "single"
  /\ View = "result"
  /\ ~(userDrawing = Null \/ Falsy(analysis) \/ isSaving \/ hasSaved)
  /\ Len(photos.store) < MaxPhotos
  /\ isSaving' = TRUE
  /\ photos' = [photos EXCEPT !.pending = photos.result]
  /\ UNCHANGED <<variant, step, captureVars, drawingVars, resultVars, hasSaved,
                 requestVars, isAnalyzing, elapsedTime, totalCritiques, call, scene, poseVars, asideVars>>

\* handleSaveResult from its await on: savePhoto settles.
saveSettled(ok) ==
  /\ variant = "single"
  /\ isSaving
  /\ hasSaved' = IF ok THEN TRUE ELSE hasSaved
  /\ isSaving' = FALSE
  /\ photos' = [photos EXCEPT
                  !.store = IF ok THEN Append(@, photos.pending) ELSE @,
                  !.pending = 0]
  /\ UNCHANGED <<variant, step, captureVars, drawingVars, resultVars,
                 requestVars, isAnalyzing, elapsedTime, totalCritiques, call, scene, poseVars, asideVars>>

\* resetFlow: the Cancel link of the draw view, New Practice of the result view.
resetFlow ==
  /\ DrawViewOpen \/ View = "result"
  /\ step' = "pose"
  /\ referenceImage' = Null
  /\ referenceLines' = Null
  /\ referenceAnalysis' = Null
  /\ userDrawing' = Null
  /\ analysis' = Null
  /\ grade' = Null
  /\ lineSets' = EmptyLineSets(variant)
  /\ captureMeta' = NoMeta
  /\ isAnalyzing' = FALSE
  /\ analysisError' = NoError
  /\ hasSaved' = FALSE
  /\ photos' = [photos EXCEPT !.result = 0]
  /\ elapsedTime' = 0
  /\ UNCHANGED <<variant, triggerCapture, tempUploadedImage, readers, isSaving,
                 requestVars, totalCritiques, call, scene, poseVars, asideVars>>

AnalysisFailedText == "Error analyzing images. Please try again."

\* runComparison of the two-phase component up to its first await, called
\* with drawingToUse (the cropped image, or the userDrawing of the state).
runComparisonTwoPhase(drawingToUse) ==
  IF referenceImage = Null \/ drawingToUse = Null
    THEN UNCHANGED <<step, isAnalyzing, requests, dispatched>>
    ELSE /\ step' = "result"
         /\ IF referenceAnalysis = Null
              THEN /\ isAnalyzing' = FALSE
                   /\ UNCHANGED <<requests, dispatched>>
              ELSE /\ dispatched < MaxRequests
                   /\ isAnalyzing' = TRUE
                   /\ requests' =
                        WithNewRequest(NewRequest(referenceImage, drawingToUse, "scanRef"))
                   /\ dispatched' = dispatched + 1

\* The "Check Accuracy" button of the two-phase draw view: disabled={!userDrawing}
submitTwoPhase ==
  /\ variant = "twoPhase"
  /\ View = "draw"
  /\ userDrawing # Null
  /\ runComparisonTwoPhase(userDrawing)
  /\ UNCHANGED <<variant, captureVars, drawingVars, resultVars, saveVars,
                 elapsedTime, totalCritiques, call, scene, poseVars, asideVars>>

\* handleCropConfirm, called by ImageCropper with the cropped image.
handleCropConfirm ==
  /\ variant = "twoPhase"
  /\ View = "crop"
  /\ userDrawing' = CroppedOf(tempUploadedImage)
  /\ tempUploadedImage' = Null
  /\ runComparisonTwoPhase(CroppedOf(tempUploadedImage))
  /\ UNCHANGED <<variant, captureVars, readers, resultVars, saveVars,
                 elapsedTime, totalCritiques, call, scene, poseVars, asideVars>>

\* The Cancel link of the crop view and onCancel of ImageCropper.
cropCancel ==
  /\ variant = "twoPhase"
  /\ View = "crop"
  /\ tempUploadedImage' = Null
  /\ step' = "draw"
  /\ UNCHANGED <<variant, captureVars, userDrawing, readers, resultVars, saveVars,
                 requestVars, isAnalyzing, elapsedTime, totalCritiques, call, scene, poseVars, asideVars>>

\* The catch and finally blocks of the two-phase runComparison, for request r.
TwoPhaseCaught(r) ==
  /\ analysis' = AnalysisFailedText
  /\ lineSets' = EmptyLineSets(variant)
  /\ grade' = Null
  /\ isAnalyzing' = FALSE
  /\ requests' = Without(r)

\* A runComparison that sends the comparison right after the reference scan.
resolveScanRefThenCompare(r, outs) ==
  /\ variant = "twoPhase"
  /\ r \in Pending
  /\ requests[r].pc = "scanRef"
  /\ Consulted(scanImageStructure(outs), outs)
  /\ LET res == scanImageStructure(outs)
     IN IF res.threw
          THEN TwoPhaseCaught(r)
          ELSE /\ lineSets' = [lineSets EXCEPT
                                 !.refLeftSet = res.value.leftSet,
                                 !.refRightSet = res.value.rightSet,
                                 !.refVerticalSet = res.value.verticalSet]
               /\ requests' = [requests EXCEPT ![r].pc = "compareSets",
                                                   ![r].scanned = @ \cup {"reference"}]
               /\ UNCHANGED <<analysis, grade, isAnalyzing>>
  /\ UNCHANGED <<variant, step, captureVars, drawingVars, analysisError, saveVars,
                 dispatched, elapsedTime, totalCritiques, call, scene, poseVars, asideVars>>

\* The two-phase runComparison resumes after scanning the reference image.
resolveScanRef(r, outs) ==
  /\ variant = "twoPhase"
  /\ r \in Pending
  /\ requests[r].pc = "scanRef"
  /\ Consulted(scanImageStructure(outs), outs)
  /\ LET res == scanImageStructure(outs)
     IN IF res.threw
          THEN TwoPhaseCaught(r)
          ELSE /\ lineSets' = [lineSets EXCEPT
                                 !.refLeftSet = res.value.leftSet,
                                 !.refRightSet = res.value.rightSet,
                                 !.refVerticalSet = res.value.verticalSet]
               /\ requests' = [requests EXCEPT ![r].pc = "scanUser",
                                                   ![r].scanned = @ \cup {"reference"}]
               /\ UNCHANGED <<analysis, grade, isAnalyzing>>
  /\ UNCHANGED <<variant, step, captureVars, drawingVars, analysisError, saveVars,
                 dispatched, elapsedTime, totalCritiques, call, scene, poseVars, asideVars>>

\* The two-phase runComparison resumes after scanning the user's drawing.
resolveScanUser(r, outs) ==
  /\ variant = "twoPhase"
  /\ r \in Pending
  /\ requests[r].pc = "scanUser"
  /\ Consulted(scanImageStructure(outs), outs)
  /\ LET res == scanImageStructure(outs)
     IN IF res.threw
          THEN TwoPhaseCaught(r)
          ELSE /\ lineSets' = [lineSets EXCEPT
                                 !.leftSet = res.value.leftSet,
                                 !.rightSet = res.value.rightSet,
                                 !.verticalSet = res.value.verticalSet]
               /\ requests' = [requests EXCEPT ![r].pc = "compareSets",
                                                   ![r].scanned = @ \cup {"user"}]
               /\ UNCHANGED <<analysis, grade, isAnalyzing>>
  /\ UNCHANGED <<variant, step, captureVars, drawingVars, analysisError, saveVars,
                 dispatched, elapsedTime, totalCritiques, call, scene, poseVars, asideVars>>

\* The two-phase runComparison resumes after compareLineSets and runs to its
\* end; reading .feedback of a null result throws into the catch block.
resolveCompareSets(r, o) ==
  /\ variant = "twoPhase"
  /\ r \in Pending
  /\ requests[r].pc = "compareSets"
  /\ LET res == compareLineSets(o)
     IN IF res.isNull
          THEN TwoPhaseCaught(r)
          ELSE /\ analysis' = Field(res.value, "feedback")
               /\ grade' = Field(res.value, "grade")
               /\ isAnalyzing' = FALSE
               /\ requests' = Without(r)
               /\ UNCHANGED lineSets
  /\ UNCHANGED <<variant, step, captureVars, drawingVars, analysisError, saveVars,
                 dispatched, elapsedTime, totalCritiques, call, scene, poseVars, asideVars>>

\* What the models answer to the requests of a session.
SessionOutcomes ==
  [err : {ErrRateLimit, ErrNetwork}, text : {BodyEmpty}]
    \cup [err : {Null}, text : {BodyFull, BodyNoFeedback, BodyJsonNull, BodyProse}]

\* What the models answer to a scan request of a session.
ScanOutcomes ==
  [err : {ErrRateLimit}, text : {BodyEmpty}]
    \cup [err : {Null}, text : {BodyFull, BodyJsonNull, BodyProse}]

NextSingle ==
  \/ triggerSceneCapture
  \/ \E img \in RefImages : captureDelivers(img)
  \/ \E img \in UserImages : handleFileChange(img)
  \/ \E i \in 1..MaxReaders : readerOnload(i)
  \/ \E img \in UserImages : handleArchiveSelect(img)
  \/ submitSingle
  \/ retrySingle
  \/ \E t \in ElapsedSamples : tick(t)
  \/ cancelAnalysis
  \/ \E r \in Pending, o1, o2 \in SessionOutcomes : resolveCompare(r, <<o1, o2>>)
  \/ handleSaveResult
  \/ \E ok \in BOOLEAN : saveSettled(ok)
  \/ resetFlow

NextTwoPhase ==
  \/ triggerSceneCapture
  \/ \E img \in RefImages : captureDelivers(img)
  \/ \E img \in UserImages : handleFileChange(img)
  \/ \E i \in 1..MaxReaders : readerOnload(i)
  \/ submitTwoPhase
  \/ handleCropConfirm
  \/ cropCancel
  \/ \E r \in Pending, o1, o2 \in ScanOutcomes : resolveScanRef(r, <<o1, o2>>)
  \/ \E r \in Pending, o1, o2 \in ScanOutcomes : resolveScanUser(r, <<o1, o2>>)
  \/ \E r \in Pending, o \in SessionOutcomes : resolveCompareSets(r, o)
  \/ resetFlow

SpecSingle == InitSingle /\ [][NextSingle]_vars
SpecTwoPhase == InitTwoPhase /\ [][NextTwoPhase]_vars

(***************************************************************************)
(* The client under test: one call of an operation on answers drawn from   *)
(* Outcomes.                                                               *)
(***************************************************************************)

callCompareDrawings(outs) ==
  /\ call.op = "idle"
  /\ call' = Called("compareDrawings", outs, compareDrawings(outs))
  /\ UNCHANGED <<sessionVars, scene, poseVars, asideVars>>

callScanImageStructure(outs) ==
  /\ call.op = "idle"
  /\ call' = Called("scanImageStructure", outs, scanImageStructure(outs))
  /\ UNCHANGED <<sessionVars, scene, poseVars, asideVars>>

callCompareLineSets(o) ==
  /\ call.op = "idle"
  /\ call' = Called("compareLineSets", <<o>>, compareLineSets(o))
  /\ UNCHANGED <<sessionVars, scene, poseVars, asideVars>>

\* The caller takes the result; the next call can start.
callReturn ==
  /\ call.op # "idle"
  /\ call' = [NoCall EXCEPT !.previous = call.tried]
  /\ UNCHANGED <<sessionVars, scene, poseVars, asideVars>>

NextClient ==
  \/ \E o1, o2 \in Outcomes : callCompareDrawings(<<o1, o2>>)
  \/ \E o1, o2 \in Outcomes : callScanImageStructure(<<o1, o2>>)
  \/ \E o \in Outcomes : callCompareLineSets(o)
  \/ callReturn

SpecClient == InitSingle /\ [][NextClient]_vars

(***************************************************************************)
(* The capture effect of SceneContent.                                     *)
(***************************************************************************)

\* gl.setPixelRatio(3)
CAPTURE_PIXEL_RATIO == 3

\* What the scene and the device start with.
Backgrounds == {Null, "#1a1a2e"}
DevicePixelRatios == {1, 2, 3}

\* How one getCroppedImage call ends: with a data URL, with null (no 2d
\* context), or with the exception drawImage or toDataURL throws.
ReadbackOutcomes == {"data", "noContext", "throws"}

getCroppedImage(out) == IF out = "data" THEN "data:image/png" ELSE Null

\* The render passes of the effect: solid and wireframe in the single-shot
\* component; solid, analysis and wireframe in the two-phase component.
Passes(v) == IF v = "single" THEN 2 ELSE 3

\* originalInfo and the assignments before the first render.
Begin(v, s) ==
  IF v = "single" THEN s ELSE [s EXCEPT !.pixelRatio = CAPTURE_PIXEL_RATIO]

\* The assignments to the scene before the render of pass k.
PassSetup(v, k, s) ==
  IF k = 1 THEN [s EXCEPT !.background = WHITE]
  ELSE IF v = "single" THEN [s EXCEPT !.background = Null, !.visible = FALSE]
  ELSE IF k = 2 THEN [s EXCEPT !.background = WHITE, !.visible = FALSE]
  ELSE [s EXCEPT !.background = Null]

\* The assignments after the last readback.
Restore(v, s, originalInfo) ==
  IF v = "single"
    THEN [s EXCEPT !.visible = TRUE, !.background = originalInfo.background]
    ELSE [s EXCEPT !.visible = TRUE, !.background = originalInfo.background,
                   !.pixelRatio = originalInfo.pixelRatio]

\* The passes from pass k on, outs[k] being how the readback of pass k ends:
\* an exception leaves the effect where it is.
RECURSIVE RunPasses(_, _, _, _, _)
RunPasses(v, k, s, outs, data) ==
  IF k > Passes(v)
    THEN [threw |-> FALSE, scene |-> s, data |-> data]
    ELSE LET set == PassSetup(v, k, s)
         IN IF outs[k] = "throws"
              THEN [threw |-> TRUE, scene |-> set, data |-> data]
              ELSE RunPasses(v, k + 1, set, outs, Append(data, getCroppedImage(outs[k])))

\* The effect with triggerCapture set; it runs again when cubePos or
\* cubeRotation change while triggerCapture stays set. onCapture is called
\* when every readback gave an image.
captureEffect(img, outs) ==
  /\ variant # "legacy"
  /\ View = "pose"
  /\ triggerCapture
  /\ scene.exit # "threw"
  /\ LET originalInfo == scene.now
         run == RunPasses(variant, 1, Begin(variant, scene.now), outs, << >>)
     IN /\ scene' = [now |-> IF run.threw THEN run.scene
                             ELSE Restore(variant, run.scene, originalInfo),
                     before |-> scene.now,
                     exit |-> IF run.threw THEN "threw" ELSE "returned",
                     data |-> run.data]
        /\ IF ~run.threw /\ \A i \in DOMAIN run.data : run.data[i] # Null
             THEN handleCapture(img)
             ELSE UNCHANGED <<sessionVars, call>>
        /\ shot' = IF run.threw THEN shot ELSE Geometry(variant, pose)
  /\ UNCHANGED <<pose, asideVars>>

\* gl.domElement.toDataURL('image/png'): the whole frame, not cropped.
FullFrameOf(img) == "full:" \o img

\* The effect of the first component (onCapture takes the image alone): the
\* crop runs in a try block, and its catch block hands over the whole frame.
captureEffectLegacy(img, out) ==
  /\ variant = "legacy"
  /\ View = "pose"
  /\ triggerCapture
  /\ scene' = [now |-> scene.now, before |-> scene.now, exit |-> "returned",
               data |-> <<getCroppedImage(out)>>]
  /\ referenceImage' = IF out = "data" THEN img ELSE FullFrameOf(img)
  /\ triggerCapture' = FALSE
  /\ step' = "draw"
  /\ shot' = Geometry(variant, pose)
  /\ UNCHANGED <<variant, referenceLines, referenceAnalysis, captureMeta, drawingVars,
                 resultVars, saveVars, requestVars, isAnalyzing, elapsedTime,
                 totalCritiques, call, pose, asideVars>>

InitCapture ==
  \E v \in {"single", "twoPhase", "legacy"}, background \in Backgrounds,
     pixelRatio \in DevicePixelRatios :
    /\ InitSession(v) /\ call = NoCall /\ scene = NoCapture(background, pixelRatio)
    /\ pose = InitPose /\ shot = NoShot /\ overlay = NoOverlay /\ loading = InitLoading
  /\ storage = InitStorage("complete")

NextCapture ==
  \/ triggerSceneCapture
  \/ \E img \in RefImages, outs \in [1..Passes(variant) -> ReadbackOutcomes] :
       captureEffect(img, outs)
  \/ \E img \in RefImages, out \in ReadbackOutcomes : captureEffectLegacy(img, out)
  \/ resetFlow

SpecCapture == InitCapture /\ [][NextCapture]_vars

(***************************************************************************)
(* The controls of the pose step.                                          *)
(***************************************************************************)

\* The presets in which the cube is turned when the preset is chosen.
Turned(v, preset) == preset = "2pt" \/ (v = "twoPhase" /\ preset = "3pt")

\* handlePresetChange
handlePresetChange(newPreset) ==
  /\ View = "pose"
  /\ newPreset \in Presets(variant)
  /\ pose' = [pose EXCEPT
                !.preset = newPreset,
                !.cubePos = <<0, 0>>,
                !.cubeRotation = IF Turned(variant, newPreset) THEN 45 ELSE 0,
                !.cameraHeight =
                  IF variant # "twoPhase" THEN @
                  ELSE IF newPreset \in {"1pt", "2pt"} THEN 0
                  ELSE IF newPreset = "3pt" THEN 5
                  ELSE @]
  /\ UNCHANGED <<sessionVars, call, scene, shot, asideVars>>

\* resetAngle, the "Reset View" button of the locked presets.
resetAngle ==
  /\ View = "pose"
  /\ pose.preset # "free"
  /\ pose' = [pose EXCEPT
                !.cubePos = <<0, 0>>,
                !.cubeRotation = IF Turned(variant, pose.preset) THEN 45 ELSE 0,
                !.cameraHeight =
                  IF variant # "twoPhase" THEN @
                  ELSE IF pose.preset = "3pt" THEN 5 ELSE 0]
  /\ UNCHANGED <<sessionVars, call, scene, shot, asideVars>>

\* onCubeMove={setCubePos}: handlePointerMove in move mode, the cube dragged
\* on the plane z = 0.
onCubeMove(pos) ==
  /\ View = "pose"
  /\ pose.preset # "free"
  /\ pose' = [pose EXCEPT !.cubePos = pos]
  /\ UNCHANGED <<sessionVars, call, scene, shot, asideVars>>

\* onCubeRotate={setCubeRotation}: handlePointerMove in rotate mode, which the
\* presets with a turned cube offer.
onCubeRotate(rotation) ==
  /\ View = "pose"
  /\ Turned(variant, pose.preset)
  /\ pose' = [pose EXCEPT !.cubeRotation = rotation]
  /\ UNCHANGED <<sessionVars, call, scene, shot, asideVars>>

\* The Height slider of the three-point preset.
setCameraHeight(h) ==
  /\ View = "pose"
  /\ variant = "twoPhase"
  /\ pose.preset = "3pt"
  /\ pose' = [pose EXCEPT !.cameraHeight = h]
  /\ UNCHANGED <<sessionVars, call, scene, shot, asideVars>>

\* The Lens slider.
setFov(f) ==
  /\ View = "pose"
  /\ pose' = [pose EXCEPT !.fov = f]
  /\ UNCHANGED <<sessionVars, call, scene, shot, asideVars>>

InitPoseStep ==
  \E v \in {"twoPhase", "legacy"} :
    /\ InitSession(v) /\ call = NoCall /\ scene = NoCapture(Null, 1)
    /\ pose = InitPose /\ shot = NoShot /\ overlay = NoOverlay /\ loading = InitLoading
  /\ storage = InitStorage("complete")

NextPose ==
  \/ \E p \in Presets("twoPhase") : handlePresetChange(p)
  \/ resetAngle
  \/ \E pos \in CubePositions : onCubeMove(pos)
  \/ \E r \in Rotations : onCubeRotate(r)
  \/ \E h \in CameraHeights : setCameraHeight(h)
  \/ \E f \in Fovs : setFov(f)
  \/ triggerSceneCapture
  \/ \E img \in RefImages : captureEffect(img, [i \in 1..Passes(variant) |-> "data"])
  \/ \E img \in RefImages : captureEffectLegacy(img, "data")
  \/ resetFlow

SpecPose == InitPoseStep /\ [][NextPose]_vars

(***************************************************************************)
(* The life of a ScanningOverlay.                                          *)
(***************************************************************************)

\* The overlay is rendered for the first time, or with other edge lists:
\* useState(0) on the first render, and the effect, which depends on allEdges,
\* sets visibleCount to 0 and starts a new interval.
overlayRender(nx, nz) ==
  /\ ~overlay.mounted \/ <<nx, nz>> # <<Len(overlay.edgesX), Len(overlay.edgesZ)>>
  /\ overlay' = [mounted |-> TRUE, edgesX |-> EdgeList("x", nx),
                 edgesZ |-> EdgeList("z", nz), visibleCount |-> 0]
  /\ UNCHANGED <<sessionVars, call, scene, poseVars, loading, storage>>

\* One turn of the interval of 50 ms.
overlayTick ==
  /\ overlay.mounted
  /\ overlay' = [overlay EXCEPT
                   !.visibleCount =
                     IF @ >= Len(allEdges(overlay)) + PAUSE_TICKS THEN 0 ELSE @ + 1]
  /\ UNCHANGED <<sessionVars, call, scene, poseVars, loading, storage>>

\* The overlay leaves the screen: the cleanup of the effect clears the interval.
overlayUnmount ==
  /\ overlay.mounted
  /\ overlay' = NoOverlay
  /\ UNCHANGED <<sessionVars, call, scene, poseVars, loading, storage>>

NextOverlay ==
  \/ \E nx, nz \in 0..MaxEdges : overlayRender(nx, nz)
  \/ overlayTick
  \/ overlayUnmount

SpecOverlay == InitTwoPhase /\ [][NextOverlay]_vars

(***************************************************************************)
(* The life of the loading effect.                                         *)
(***************************************************************************)

\* setIsAnalyzing(true) of runComparison: a dependency of the effect changes.
analysisStarts ==
  /\ ~loading.isAnalyzing
  /\ ~loading.effectDue
  /\ loading' = [loading EXCEPT !.isAnalyzing = TRUE, !.effectDue = TRUE]
  /\ UNCHANGED <<sessionVars, call, scene, poseVars, overlay, storage>>

\* setIsAnalyzing(false): the request settles, or the user cancels once the
\* button is shown.
analysisEnds ==
  /\ loading.isAnalyzing
  /\ loading' = [loading EXCEPT !.isAnalyzing = FALSE, !.effectDue = TRUE]
  /\ UNCHANGED <<sessionVars, call, scene, poseVars, overlay, storage>>

\* The effect with the dependencies [isAnalyzing, loadingStartTime] runs after
\* a render in which one of them changed: the cleanup of the run before clears
\* its intervals, then the body runs with the state of this render.  A state
\* it sets to another value brings the next render and the next run.
loadingEffect ==
  /\ loading.effectDue
  /\ IF ~loading.isAnalyzing
       THEN loading' = [loading EXCEPT
                          !.loadingStartTime = NoTime,
                          !.elapsedTime = 0,
                          !.timeInterval = NoInterval,
                          !.effectDue = (loading.loadingStartTime # NoTime)]
       ELSE loading' = [loading EXCEPT
                          !.loadingStartTime = loading.now,
                          !.timeInterval =
                            [start |-> loading.loadingStartTime,
                             due |-> loading.now + InstantsPerSecond],
                          !.effectDue = (loading.now # loading.loadingStartTime)]
  /\ UNCHANGED <<sessionVars, call, scene, poseVars, overlay, storage>>

\* The callback of timeInterval: if (loadingStartTime) setElapsedTime(...),
\* loadingStartTime being the one of the render that set the interval.
timeInterval ==
  /\ loading.timeInterval # NoInterval
  /\ loading.now >= loading.timeInterval.due
  /\ loading' = [loading EXCEPT
                   !.elapsedTime =
                     IF loading.timeInterval.start # NoTime
                       THEN (loading.now - loading.timeInterval.start)
                              \div InstantsPerSecond
                       ELSE @,
                   !.timeInterval.due = @ + InstantsPerSecond]
  /\ UNCHANGED <<sessionVars, call, scene, poseVars, overlay, storage>>

\* Time passes; an interval that is due fires first.
clockAdvances ==
  /\ loading.now < MaxNow
  /\ ~(loading.timeInterval # NoInterval /\ loading.now >= loading.timeInterval.due)
  /\ loading' = [loading EXCEPT !.now = @ + 1]
  /\ UNCHANGED <<sessionVars, call, scene, poseVars, overlay, storage>>

NextLoading ==
  \/ analysisStarts
  \/ analysisEnds
  \/ loadingEffect
  \/ timeInterval
  \/ clockAdvances

SpecLoading == InitSingle /\ [][NextLoading]_vars

(***************************************************************************)
(* Actions: the progress service.                                          *)
(***************************************************************************)

\* completeTask(taskId); now is the date updateStreak reads.
completeTask(taskId, now) ==
  /\ storage.version = "complete"
  /\ LET today == storage.clock
         progress == getProgress
         newDay == progress.lastPracticeDate # today
         dated == IF newDay
                    THEN updateStreak([progress EXCEPT !.lastPracticeDate = today], now)
                    ELSE progress
     IN /\ now = today \/ newDay
        /\ IF taskId \in dated.completedTaskIds
             THEN storage' = [storage EXCEPT !.clock = now]
             ELSE /\ dated.xp + XP_PER_TASK <= MaxXp
                  /\ storage' =
                       saveProgress(
                         [dated EXCEPT !.completedTaskIds = @ \cup {taskId},
                                       !.xp = @ + XP_PER_TASK,
                                       !.level = LevelFor(dated.xp + XP_PER_TASK)],
                         Pushed(taskId), now)
  /\ UNCHANGED <<sessionVars, call, scene, poseVars, overlay, loading>>

\* toggleTask(taskId); now is the date updateStreak reads.  Of its two date
\* tests at most one passes: the first leaves lastPracticeDate = today.
toggleTask(taskId, now) ==
  /\ storage.version = "toggle"
  /\ LET today == storage.clock
         progress == getProgress
         crossed == IF progress.lastPracticeDate # today /\ progress.lastPracticeDate # NoDate
                      THEN updateStreak([progress EXCEPT !.lastPracticeDate = today], now)
                      ELSE progress
         dated == IF crossed.lastPracticeDate # today
                    THEN updateStreak([crossed EXCEPT !.lastPracticeDate = today], now)
                    ELSE crossed
         wasCompleted == taskId \in dated.completedTaskIds
         xp == IF wasCompleted THEN UncompletedXp(dated.xp) ELSE dated.xp + XP_PER_TASK
     IN /\ now = today \/ progress.lastPracticeDate # today
        /\ xp <= MaxXp
        /\ storage' =
             saveProgress(
               [dated EXCEPT !.completedTaskIds =
                               IF wasCompleted THEN @ \ {taskId} ELSE @ \cup {taskId},
                             !.xp = xp,
                             !.level = LevelFor(xp)],
               IF wasCompleted THEN storage.defaultCompleted ELSE Pushed(taskId), now)
  /\ UNCHANGED <<sessionVars, call, scene, poseVars, overlay, loading>>

\* recordCritique(); now is the date updateStreak reads.
recordCritique(now) ==
  /\ LET today == storage.clock
         progress == getProgress
         newDay == progress.lastPracticeDate # today
         dated == IF newDay
                    THEN [updateStreak(progress, now) EXCEPT !.lastPracticeDate = today]
                    ELSE progress
     IN /\ now = today \/ newDay
        /\ dated.xp + XP_PER_CRITIQUE <= MaxXp
        /\ storage' =
             saveProgress(
               [dated EXCEPT !.totalCritiques = @ + 1,
                             !.xp = @ + XP_PER_CRITIQUE,
                             !.level = LevelFor(dated.xp + XP_PER_CRITIQUE)],
               storage.defaultCompleted, now)
  /\ UNCHANGED <<sessionVars, call, scene, poseVars, overlay, loading>>

recordLesson ==
  /\ LET progress == getProgress
     IN /\ progress.xp + XP_PER_LESSON <= MaxXp
        /\ storage' =
             saveProgress(
               [progress EXCEPT !.totalLessons = @ + 1,
                                !.xp = @ + XP_PER_LESSON,
                                !.level = LevelFor(progress.xp + XP_PER_LESSON)],
               storage.defaultCompleted, storage.clock)
  /\ UNCHANGED <<sessionVars, call, scene, poseVars, overlay, loading>>

\* resetProgress: localStorage.removeItem(STORAGE_KEY).  The arrays of
\* DEFAULT_PROGRESS stay as they are.
resetProgress ==
  /\ storage.stored
  /\ storage' = [storage EXCEPT !.stored = FALSE, !.item = DEFAULT_PROGRESS]
  /\ UNCHANGED <<sessionVars, call, scene, poseVars, overlay, loading>>

\* The page is loaded again, with version v of the service: the module's
\* constants are fresh, the storage is what it was.
reload(v) ==
  /\ storage.defaultCompleted # {} \/ storage.version # v
  /\ storage' = [storage EXCEPT !.version = v, !.defaultCompleted = {}]
  /\ UNCHANGED <<sessionVars, call, scene, poseVars, overlay, loading>>

midnight ==
  /\ storage.clock < MaxDay
  /\ storage' = [storage EXCEPT !.clock = @ + 1]
  /\ UNCHANGED <<sessionVars, call, scene, poseVars, overlay, loading>>

InitProgress ==
  /\ InitSession("single") /\ call = NoCall /\ scene = NoCapture(Null, 1)
  /\ pose = InitPose /\ shot = NoShot /\ overlay = NoOverlay /\ loading = InitLoading
  /\ \E v \in Versions : storage = InitStorage(v)

NextProgress ==
  \/ \E taskId \in TaskIds, now \in LaterReads : completeTask(taskId, now)
  \/ \E taskId \in TaskIds, now \in LaterReads : toggleTask(taskId, now)
  \/ \E now \in LaterReads : recordCritique(now)
  \/ recordLesson
  \/ resetProgress
  \/ \E v \in Versions : reload(v)
  \/ midnight

SpecProgress == InitProgress /\ [][NextProgress]_vars

(***************************************************************************)
(* Properties of the client.                                               *)
(***************************************************************************)

\* The response to the request o is a JSON object.
Answered(o) ==
  /\ o.err = Null
  /\ JsonParse(o.text).ok
  /\ JsonParse(o.text).kind = "object"

\* C3: when the request of compareDrawings to the primary model is rejected
\* with a rate-limit error (429), the request is sent to the next model of the
\* list before anything is returned, and a failure is returned only when the
\* last model of the list has failed as well.
RateLimitFallsBack ==
  (call.op = "compareDrawings" /\ call.outs[1].err = ErrRateLimit) =>
    /\ ~call.threw
    /\ call.tried = modelsToTry
    /\ (call.via # "parsed" => ~Answered(call.outs[Len(modelsToTry)]))

\* The primary model was rate-limited, the fallback model was asked and
\* rejected the request too, and the failure came back after both.
RateLimitedTwice ==
  /\ call.op = "compareDrawings"
  /\ call.outs[1].err = ErrRateLimit
  /\ call.outs[2].err = ErrRateLimit
  /\ call.tried = modelsToTry
  /\ call.via = "exhausted"
  /\ call.message = FailedLater

\* C12: in each call of the two-phase protocol (the two scans and the
\* comparison of the line sets), a rate-limit rejection by the primary model
\* is followed by a request to the fallback model, and the call fails or
\* substitutes a result only when the last model of the list has failed too.
TwoPhaseRateLimitRecovered ==
  (/\ call.op \in {"scanImageStructure", "compareLineSets"}
   /\ call.outs[1].err = ErrRateLimit) =>
    /\ call.tried = modelsToTry
    /\ ((call.threw \/ call.via # "parsed") => ~Answered(call.outs[Len(modelsToTry)]))

\* C13: every call sends its first request to the primary model and goes
\* through the models in the order of the list, whichever models the call
\* before it ended on.
CallStartsAtPrimary ==
  call.op # "idle" =>
    /\ Len(call.tried) \in 1..2
    /\ call.tried[1] = MODEL_NAME
    /\ (Len(call.tried) = 2 => call.tried[2] = FALLBACK_MODEL_NAME)

\* The call before ended on the fallback model; this one was answered by the
\* primary model.
PrimaryAfterFallback ==
  /\ call.op \in {"compareDrawings", "scanImageStructure"}
  /\ Len(call.previous) = 2
  /\ call.previous[2] = FALLBACK_MODEL_NAME
  /\ call.tried = <<MODEL_NAME>>
  /\ call.via = "parsed"

\* C14: a result the client returns from a parsed response has a grade: "C"
\* when the response has no grade field, and never undefined or empty.
ParsedGradeDefaults ==
  (/\ call.op \in {"compareDrawings", "compareLineSets"}
   /\ call.via = "parsed"
   /\ Answered(call.outs[Len(call.tried)])) =>
    /\ ~Falsy(call.grade)
    /\ ("grade" \notin DOMAIN JsonParse(call.outs[Len(call.tried)].text).fields
          => call.grade = "C")

\* C5: when every response an operation of the client receives has a body
\* that is not valid JSON, the operation returns a result with a non-empty
\* message and no exception reaches the caller.
InvalidJsonReturnsFailure ==
  (/\ call.op # "idle"
   /\ \A i \in 1..Len(call.tried) :
        call.outs[i].err = Null /\ call.outs[i].text \in InvalidJsonBodies) =>
    /\ ~call.threw
    /\ ~Falsy(call.message)

(***************************************************************************)
(* Properties of the critique session.                                     *)
(***************************************************************************)

\* The step taken resumes the suspended runComparison call r.
Resumed(r) ==
  /\ r \in Pending
  /\ (r \in DOMAIN requests' => requests'[r].pc # requests[r].pc)

\* C1: every analysis that ends successfully calls recordCritique exactly
\* once, and an analysis that fails or that the user cancelled calls it not at
\* all; nothing else records a critique.
CritiqueOncePerSuccess ==
  [][/\ (totalCritiques' # totalCritiques => \E r \in Pending : Resumed(r))
     /\ \A r \in Pending : Resumed(r) =>
          totalCritiques' - totalCritiques =
            IF ~requests[r].cancelled /\ analysisError' = NoError THEN 1 ELSE 0]_vars

\* C2: the result of a request that a newer comparison, or a new capture after
\* a reset, has overtaken is not written into the session: the cue sets, the
\* feedback and the grade stay as they are when such a request resumes.
StaleResultDiscarded ==
  [][\A r \in Pending : (requests[r].stale /\ Resumed(r)) =>
        UNCHANGED <<analysis, grade, lineSets>>]_vars

\* C4: the session is in result only with the feedback of a response that was
\* parsed; the output of a comparison that failed is never shown as a result.
ResultOnlyOnSuccess ==
  step = "result" => analysis \notin Bodies \cup {AnalysisFailedText}

\* C15: the session is cancelled only while it is analyzing and only once
\* elapsedTime has reached 15 seconds; the cancel ends analyzing, shows the
\* cancellation message as the error, and leaves the request outstanding.
CancelOnlyAfterThreshold ==
  [][(analysisError' = CancelledError /\ analysisError # CancelledError) =>
        /\ isAnalyzing
        /\ elapsedTime >= CANCEL_AFTER
        /\ ~isAnalyzing'
        /\ analysisError'.message = "Analysis cancelled. Try again?"
        /\ step' = "draw"
        /\ DOMAIN requests' = DOMAIN requests
        /\ requests' # << >>]_vars

\* The session was cancelled and shows the cancellation message, while the
\* request it had sent is still outstanding.
CancelledWithRequestOut ==
  /\ analysisError = CancelledError
  /\ ~isAnalyzing
  /\ step = "draw"
  /\ \E r \in Pending : requests[r].cancelled

\* C16: a call of the two-phase runComparison is at the comparison of the
\* line sets only when the scan of the reference image and the scan of the
\* user's drawing have both returned their results to it.
CompareAfterBothScans ==
  \A r \in Pending :
    requests[r].pc = "compareSets" => requests[r].scanned = {"reference", "user"}

\* A call has both scan results and waits for the comparison.
ComparisonDispatched ==
  \E r \in Pending :
    requests[r].pc = "compareSets" /\ requests[r].scanned = {"reference", "user"}

\* C17: a comparison whose request failed shows the kind of failure that
\* occurred: when the last model asked rejected the request with a network
\* failure, the session's error is the network error with its message, and
\* never the parse error.
FailureKindReported ==
  [][\A r \in Pending, o1, o2 \in SessionOutcomes :
       LET outs == <<o1, o2>>
           asked == compareDrawings(outs).tried
       IN (resolveCompare(r, outs) /\ outs[Len(asked)].err = ErrNetwork)
            => analysisError' = NetworkError]_vars

\* C18: confirming a crop stores the cropped image as the user drawing and
\* shows the draw step again; it starts no analysis by itself.
CropConfirmReturnsToDraw ==
  [][handleCropConfirm =>
       /\ userDrawing' = CroppedOf(tempUploadedImage)
       /\ step' = "draw"
       /\ ~isAnalyzing'
       /\ requests' = requests]_vars

\* C6: when the session shows an error, the captured reference image and the
\* uploaded drawing are both still there, and the request a retry sends holds
\* these two images.
ErrorKeepsImages ==
  [][/\ (View = "draw" /\ analysisError # NoError /\ ~isAnalyzing) =>
          (referenceImage # Null /\ userDrawing # Null)
     /\ (analysisError # NoError /\ dispatched' = dispatched + 1) =>
          /\ requests'[dispatched'].ref = referenceImage
          /\ requests'[dispatched'].drawing = userDrawing
          /\ UNCHANGED <<referenceImage, userDrawing>>]_vars

\* C7: while a retry started after a cancel is analyzing, the late answer to the
\* cancelled request changes neither the analyzing flag nor the step nor the
\* error: the session stays in analyzing until the retry's own answer.
RetryStaysAnalyzing ==
  [][\A r \in Pending : (requests[r].cancelled /\ isAnalyzing /\ Resumed(r)) =>
        (isAnalyzing' /\ UNCHANGED <<step, analysisError>>)]_vars

\* C8: every entry into analyzing clears the analysis text, the grade and the
\* detected edge sets of the round before, before the request is sent.
EntryClearsResults ==
  [][dispatched' # dispatched =>
        /\ analysis' = Null
        /\ grade' = Null
        /\ lineSets' = EmptyLineSets(variant)]_vars

\* C9: every reset returns the session to posing and leaves no capture,
\* drawing or result data behind: reference images, capture metadata, the user
\* drawing and any upload still pending, analysis text, grade, edge sets,
\* error and the analyzing flag are all cleared.
ResetLeavesNothing ==
  [][(step # "pose" /\ step' = "pose") =>
        /\ referenceImage' = Null /\ referenceLines' = Null
        /\ referenceAnalysis' = Null /\ captureMeta' = NoMeta
        /\ userDrawing' = Null /\ tempUploadedImage' = Null /\ readers' = << >>
        /\ analysis' = Null /\ grade' = Null
        /\ lineSets' = EmptyLineSets(variant)
        /\ analysisError' = NoError /\ ~isAnalyzing']_vars

(***************************************************************************)
(* Properties of the capture effect.                                       *)
(***************************************************************************)

\* The step is a run of the capture effect.
CaptureRan ==
  /\ step = "pose"
  /\ triggerCapture
  /\ (scene' # scene \/ referenceImage' # referenceImage)

\* C11: a triggered capture always delivers a reference image to the session;
\* when a readback or a crop fails (no 2d context, or an exception), the image
\* delivered is the whole frame, not cropped.
CaptureAlwaysDelivers ==
  [][CaptureRan =>
       /\ step' = "draw"
       /\ referenceImage' # Null
       /\ (scene'.exit = "threw" \/ \E i \in DOMAIN scene'.data : scene'.data[i] = Null)
            => referenceImage' \in {FullFrameOf(img) : img \in RefImages}]_vars

\* C10: when the capture effect exits, by its end or by an exception of a
\* readback, the scene background, the visibility of the cube's face material
\* and the renderer's pixel ratio are what they were when the capture started.
CaptureRestoresScene ==
  scene.exit # "none" => scene.now = scene.before

(***************************************************************************)
(* Properties of the geometry of a capture.                                *)
(***************************************************************************)

\* The axes of the cube that converge in a preset.
ConvergingAxes(preset) ==
  CASE preset = "free" -> 0 [] preset = "1pt" -> 1 [] preset = "2pt" -> 2
    [] preset = "3pt" -> 3

\* The vanishing points a capture handed over.
PointsOf(s) == Cardinality({k \in {"vpLeft", "vpRight"} : s[k] # NoPoint})

Delivered == variant = "twoPhase" /\ triggerCapture /\ ~triggerCapture'

\* C19: a capture that delivers hands over one vanishing point for each
\* converging axis of the preset in force: none in free mode, one in
\* one-point mode, two in two-point mode, three in three-point mode.
VanishingPointPerAxis ==
  [][Delivered => PointsOf(shot') = ConvergingAxes(pose.preset)]_vars

\* The same for the two-point preset alone.
TwoPointsInTwoPoint ==
  [][(Delivered /\ pose.preset = "2pt") => PointsOf(shot') = 2]_vars

\* C20: whatever the pose and the camera, the box of the projected corners
\* has no negative side before padding, and the crop rectangle lies inside the
\* render target: 0 <= minX <= maxX <= width and 0 <= minY <= maxY <= height.
CropInsideTarget ==
  shot.taken =>
    /\ shot.content.minX <= shot.content.maxX
    /\ shot.content.minY <= shot.content.maxY
    /\ 0 <= shot.crop.minX /\ shot.crop.minX <= shot.crop.maxX
    /\ shot.crop.maxX <= width
    /\ 0 <= shot.crop.minY /\ shot.crop.minY <= shot.crop.maxY
    /\ shot.crop.maxY <= height

\* A capture of a cube that lies left of the whole frame.
CubeLeftOfFrame ==
  shot.taken /\ shot.content.minX < 0 /\ shot.content.maxX = 0

\* The depth component, in thousandths, of the axis a vanishing point or a
\* marker belongs to: (cos, 0, -sin) for the width axis, (sin, 0, cos) for the
\* depth axis.
DepthComponent(axis, rotation) ==
  IF axis \in {"x", "right"} THEN -Sin1000(rotation) ELSE Cos1000(rotation)

\* C21: the vanishing point of an axis whose depth component is within
\* epsilon of zero is null, and every other vanishing point lies on the
\* horizon plane; this holds for getVanishingPoint and for the markers of the
\* first component.
VanishingPointNullAtInfinity ==
  /\ \A axis \in {"x", "z"} :
       LET vp == getVanishingPoint(Camera(pose), pose.cubeRotation, axis)
       IN IF Abs(DepthComponent(axis, pose.cubeRotation)) < 1
            THEN vp = NoPoint
            ELSE vp # NoPoint /\ vp[3] = HORIZON_Z * UNIT
  /\ variant = "legacy" =>
       \A type \in MarkerTypes(pose.preset) :
         Abs(DepthComponent(type, pose.cubeRotation)) < 1 =>
           calculateVPPosition(CAMERA_DISTANCE, pose.cubeRotation, type) = NoPoint

\* The same for getVanishingPoint alone.
GetVanishingPointNullAtInfinity ==
  \A axis \in {"x", "z"} :
    LET vp == getVanishingPoint(Camera(pose), pose.cubeRotation, axis)
    IN IF Abs(DepthComponent(axis, pose.cubeRotation)) < 1
         THEN vp = NoPoint
         ELSE vp # NoPoint /\ vp[3] = HORIZON_Z * UNIT

SeenFrom(v, p, rect) ==
  LET q == projectVec(v, Camera(p)) IN <<q[1] - rect.minX, q[2] - rect.minY>>

\* C23: every coordinate a capture hands over is the pixel of the frame less
\* the corner of the padded and clamped rectangle, and that rectangle is the
\* one the images are cut to and the one whose width and height are handed
\* over.
CoordinatesFromCrop ==
  [][Delivered =>
       LET rect == CropBox(variant, ContentBox(pose))
           ends(segments, i) ==
             SeenFrom(Placed(segments[i][1], pose), pose, rect)
               \o SeenFrom(Placed(segments[i][2], pose), pose, rect)
           points == {SeenFrom(getVanishingPoint(Camera(pose), pose.cubeRotation, axis),
                               pose, rect) :
                        axis \in {a \in {"x", "z"} :
                                    getVanishingPoint(Camera(pose), pose.cubeRotation, a)
                                      # NoPoint}}
       IN /\ shot'.crop = rect
          /\ shot'.drawn = [x |-> rect.minX, y |-> rect.minY,
                            width |-> rect.maxX - rect.minX,
                            height |-> rect.maxY - rect.minY]
          /\ shot'.width = shot'.drawn.width /\ shot'.height = shot'.drawn.height
          /\ \A i \in 1..4 : shot'.edgesX[i] = ends(xSegments, i)
          /\ \A i \in 1..4 : shot'.edgesZ[i] = ends(zSegments, i)
          /\ \A k \in {"vpLeft", "vpRight"} :
               shot'[k] # NoPoint => shot'[k] \in points
          /\ shot'.horizonY = SeenFrom(<<0, 0, HORIZON_Z * UNIT>>, pose, rect)[2]]_vars

\* A capture whose rectangle does not start at the corner of the frame and
\* that handed over a vanishing point.
ShiftedCapture ==
  /\ variant = "twoPhase" /\ shot.taken
  /\ shot.crop.minX > 0 /\ shot.crop.minY > 0
  /\ shot.vpLeft # NoPoint

\* C24: while the edge lists stay the same, the lines drawn are a prefix of
\* the edges that only grows, so that the whole list, once drawn, stays drawn.
RevealOnlyGrows ==
  [][(overlay.mounted /\ overlay'.mounted
        /\ overlay'.edgesX = overlay.edgesX /\ overlay'.edgesZ = overlay.edgesZ)
       => /\ Len(DrawnEdges(overlay')) >= Len(DrawnEdges(overlay))
          /\ DrawnEdges(overlay') =
               SubSeq(allEdges(overlay), 1, Len(DrawnEdges(overlay')))]_vars

\* C25: a compareDrawings call whose primary model fails with an error that
\* is not a rate limit asks no other model and ends with the failure result;
\* the fallback model is asked after a rate limit only.
FallbackOnlyOnRateLimit ==
  (call.op = "compareDrawings" /\ call.outs[1].err # Null
     /\ ~isRateLimitError(call.outs[1].err))
    => /\ call.tried = <<MODEL_NAME>>
       /\ IncludesFailedToCompare(call.message)

\* C26: when the request of an analysis the user cancelled settles, and the
\* user did nothing in between, the session stays as it was: the cancellation
\* message is still shown, the step is not the result, no critique is recorded.
CancelledResolutionChangesNothing ==
  [][\A r \in Pending :
       (/\ requests[r].cancelled /\ ~requests[r].stale
        /\ analysisError = CancelledError /\ ~isAnalyzing
        /\ Resumed(r))
         => /\ analysisError' = CancelledError
            /\ step' = step
            /\ ~isAnalyzing'
            /\ totalCritiques' = totalCritiques]_vars

\* C27: the start of an analysis is recorded once: while the analysis is in
\* flight a recorded start is not replaced by another, and the elapsed time
\* does not go down.
StartRecordedOnce ==
  [][(loading.isAnalyzing /\ loading'.isAnalyzing)
       => /\ (loading.loadingStartTime # NoTime
                => loading'.loadingStartTime = loading.loadingStartTime)
          /\ loading'.elapsedTime >= loading.elapsedTime]_vars

\* C28: the drawing of one analysis result reaches the photo store at most
\* once, and hasSaved goes back to false only as a new analysis starts or as
\* the flow is reset.
SavedOncePerResult ==
  [][/\ \A i, j \in DOMAIN photos'.store :
          photos'.store[i] = photos'.store[j] => i = j
     /\ (isSaving /\ photos'.pending # photos.pending) => photos'.pending = 0
     /\ (hasSaved /\ ~hasSaved') => (dispatched' = dispatched + 1 \/ step' = "pose")]_vars

\* A save that ended well, followed by the Save of another result.
SavedAndSavingAgain ==
  Len(photos.store) = 1 /\ isSaving /\ photos.pending # photos.store[1]

(***************************************************************************)
(* Properties of the progress service.                                     *)
(***************************************************************************)

\* The streak a first practice of the day is to leave: one more when the
\* last practice was the day before, 1 when it was earlier or never.
StreakOfNewDay(progress, today) ==
  IF progress.lastPracticeDate = today - 1 THEN progress.streak + 1 ELSE 1

\* C29: the first practice action of a day, completeTask or recordCritique
\* alike, leaves a streak one higher when the last practice was yesterday and
\* a streak of 1 when it was earlier or never (the date not changing during
\* the call).
FirstPracticeUpdatesStreak ==
  [][LET today == storage.clock
         before == getProgress
     IN before.lastPracticeDate # today =>
          /\ \A taskId \in TaskIds :
               completeTask(taskId, today) =>
                 getProgress'.streak = StreakOfNewDay(before, today)
          /\ recordCritique(today) =>
               getProgress'.streak = StreakOfNewDay(before, today)]_vars

\* C30: the progress the service reads satisfies level = floor(xp / 500) + 1
\* and xp >= 0.
LevelFollowsXp ==
  /\ getProgress.level = (getProgress.xp \div 500) + 1
  /\ getProgress.xp >= 0

\* A task was un-completed and the stored xp is back at 0.
UncompletedToZero ==
  /\ storage.stored
  /\ storage.item.xp = 0
  /\ storage.item.completedTaskIds = {}

====
